---- MODULE Spec2Model ----
(***************************************************************************)
(* MacroMaker (entity12208/MacroMaker): a Geometry Dash mod that searches  *)
(* for a per-frame click sequence completing a level.  The repository      *)
(* holds several drafts of src/main.cpp:                                   *)
(*   build "dfs"    : unnamed/part_000 (and its older draft part_001),     *)
(*                    ClickMacroMaker with a backtracking DFS that drives  *)
(*                    the PlayLayer from a detached thread;                *)
(*   build "random" : unnamed/part_002, randomized trial search;           *)
(*   build "main"   : src/main.cpp, AutomaticMacroMaker, an engine-free    *)
(*                    DFS on a worker and a replay on the main thread.     *)
(* The PlayLayer (the host game engine) is not code of the repository: it  *)
(* is modelled as a deterministic frame-stepped simulation whose state is  *)
(* the list of inputs applied since the level start.                       *)
(***************************************************************************)
EXTENDS Integers, Sequences, FiniteSets, TLC

VARIABLES
    build,              \* which draft of the mod is loaded
    level,              \* the level being played: [goal, trap]
    now,                \* the steady clock
    sim,                \* PlayLayer simulation state: [hist, pressed, started]
    snap,               \* PlayLayer's single state snapshot slot
    paused,             \* PlayLayer pause flag (pauseGame)
    recording,          \* PlayLayer recording flag (startRecording/stopRecording)
    recorded,           \* whether a frame was recorded since startRecording
    calls,              \* history: engine calls made so far, [op, by, paused]
    m_menuOpen,         \* dfs build: m_ui.m_menuOpen
    m_modal,            \* dfs build: m_ui.m_modal != nullptr
    m_lastReplayData,   \* dfs build: m_ui.m_lastReplayData
    m_macroModalOpen,   \* random build: m_fields->m_macroModalOpen
    g_modalState,       \* random build: [modalLayer, lastReplayData, running]
    m_modalLayer,       \* main build: the id of the modal shown, 0 for nullptr
    m_modalStatusLabel, \* main build: the id of the modal whose label is held
    nModals,            \* main build: modals created so far
    mainQueue,          \* main build: callbacks scheduled on the main thread
    levelName,          \* PlayLayer m_level->m_levelName, a string of characters
    exported,           \* the files written so far, in order: [name, content, t]
    exportLog,          \* what the Export handlers told the user, in order
    thr                 \* the detached solver threads, by slot

vars == <<build, level, now, sim, snap, paused, recording, recorded, calls,
          m_menuOpen, m_modal, m_lastReplayData, m_macroModalOpen, g_modalState,
          m_modalLayer, m_modalStatusLabel, nModals, mainQueue, levelName,
          exported, exportLog, thr>>

engineVars == <<sim, snap, paused, recording, recorded>>
dfsUiVars == <<m_menuOpen, m_modal, m_lastReplayData>>
rndVars == <<m_macroModalOpen, g_modalState>>
mainVars == <<m_modalLayer, m_modalStatusLabel, nModals, mainQueue>>
fsVars == <<levelName, exported, exportLog>>

----------------------------------------------------------------------------
(* Bounds of the model.  The program's constants are scaled down so that   *)
(* the whole search tree is explored.                                      *)

\* part_000:19  MAX_SEARCH_FRAMES = 60 * 60 * 2, scaled
MAX_SEARCH_FRAMES == 3
\* part_000:20  TIMEOUT_MS = 40 * 1000, scaled to clock ticks
TIMEOUT_MS == 1
\* the clock stops ticking here
MaxClock == 2
\* number of solver thread slots (searches started over one run)
MaxThreads == 2
\* longest goal of a level
MaxGoalLen == 3

Tids == 1..MaxThreads

----------------------------------------------------------------------------
(* Sequences of booleans.                                                  *)

RECURSIVE BoolSeqsOfLen(_)
BoolSeqsOfLen(n) ==
    IF n = 0 THEN {<<>>}
    ELSE {Append(q, b) : q \in BoolSeqsOfLen(n - 1), b \in BOOLEAN}

BoolSeqsUpTo(n) == UNION {BoolSeqsOfLen(k) : k \in 0..n}

IsPrefix(p, q) ==
    /\ Len(p) <= Len(q)
    /\ \A i \in 1..Len(p) : p[i] = q[i]

\* lexicographic order, FALSE < TRUE, a proper prefix before its extensions
LexLess(a, b) ==
    \/ (Len(a) < Len(b) /\ IsPrefix(a, b))
    \/ \E i \in 1..Len(a) :
          /\ i <= Len(b)
          /\ \A j \in 1..(i - 1) : a[j] = b[j]
          /\ a[i] = FALSE /\ b[i] = TRUE

----------------------------------------------------------------------------
(* The PlayLayer: a deterministic simulation.  Its state is the input of   *)
(* every frame stepped since the level start (hist), the pending button    *)
(* press (pressed) and whether gameplay was started.  The level decides    *)
(* success (goal is a prefix of hist) and death (trap is a prefix).        *)

\* frames after which the level's timeline no longer changes
HistCap == MAX_SEARCH_FRAMES + 2

SimStart == [hist |-> <<>>, pressed |-> FALSE, started |-> TRUE]

\* PlayerObject::pushButton(PlayerButton::Jump)
PushButton(s) == [s EXCEPT !.pressed = TRUE]

\* PlayLayer::update(SIM_DT): one frame with the pending input; no effect
\* while gameplay is not started
Update(s) ==
    IF ~s.started THEN s
    ELSE [s EXCEPT !.hist = IF Len(@) < HistCap THEN Append(@, s.pressed) ELSE @,
                   !.pressed = FALSE]

\* PlayLayer::startGame()
StartGame(s) == [s EXCEPT !.started = TRUE]

\* PlayLayer::resetLevelFromStart()
ResetLevelFromStart(s) == SimStart

\* the frames of the level whose input does not matter for success (none
\* unless the level names them)
FreeFrames == IF "free" \in DOMAIN level THEN level.free ELSE {}

\* the level is completed once every goal frame was played with the goal's
\* input, the free frames with any input
GoalReached(hist) ==
    /\ Len(level.goal) <= Len(hist)
    /\ \A i \in 1..Len(level.goal) : i \in FreeFrames \/ hist[i] = level.goal[i]

\* PlayLayer::getCurrentPercentInt()
GetCurrentPercentInt(s) ==
    IF GoalReached(s.hist) THEN 100
    ELSE (Len(s.hist) * 99) \div (HistCap + 1)

\* m_player1->playerIsFalling(0.0f) && m_player1->playerDestroyed
PlayerDestroyed(s) ==
    /\ level.trap # <<>>
    /\ IsPrefix(level.trap, s.hist)
    /\ GetCurrentPercentInt(s) < 100

\* the calls that step or reset the simulation
SteppingOps == {"update", "resetLevelFromStart"}

\* one engine call, as the history records it: the operation, the thread that
\* made it and, for a stepping call, whether the game was paused
Call(op, by) ==
    [op |-> op, by |-> by, paused |-> IF op \in SteppingOps THEN paused ELSE TRUE]

\* replay of a decision sequence from state s: one step per element,
\* the button pushed exactly on the TRUE elements
RECURSIVE Replay(_, _)
Replay(s, q) ==
    IF q = <<>> THEN s
    ELSE Replay(Update(IF Head(q) THEN PushButton(s) ELSE s), Tail(q))

\* a level: success is reached by the goal inputs; the trap inputs kill the
\* player, and a killed player never completes the level
Levels ==
    {l \in [goal : BoolSeqsUpTo(MaxGoalLen) \ {<<>>},
            trap : {<<>>, <<FALSE>>, <<TRUE>>}] :
        l.trap = <<>> \/ ~IsPrefix(l.trap, l.goal)}

----------------------------------------------------------------------------
(* build "dfs": ClickMacroMaker (part_000)                                 *)

NoRestore == [frame |-> -1]

IdleThread ==
    [pc |-> "idle", stack |-> <<>>, ret |-> "none", current |-> <<>>,
     bestSequence |-> <<>>, found |-> FALSE, ok |-> FALSE, startTime |-> 0,
     snap0 |-> SimStart, msgs |-> <<>>, sawTimeout |-> FALSE,
     lastRestore |-> NoRestore, entrySeq |-> <<>>]

Top(t) == thr[t].stack[Len(thr[t].stack)]
Frame(t) == Len(thr[t].stack) - 1

\* the mutant leaves the pushed decision on the sequence
PopBack_Skip(q) == q

\* part_000:183, 191 and main.cpp:129, 134  pop_back()
PopBack(q) == SubSeq(q, 1, Len(q) - 1)

SetTop(st, pc) == [st EXCEPT ![Len(st)].pc = pc]
Pop(st) == SubSeq(st, 1, Len(st) - 1)

\* the frame returned v: the caller resumes, or the search ends
Return(r, v) ==
    LET st == Pop(r.stack) IN
    [r EXCEPT !.stack = st, !.ret = v, !.entrySeq = Pop(@),
              !.pc = IF st = <<>> THEN "finish" ELSE "dfs",
              !.ok = IF st = <<>> THEN (v = "true") ELSE @]

TimedOut(t) == now - thr[t].startTime > TIMEOUT_MS

\* openMenu (part_000:66-101)
OpenMenu ==
    /\ ~m_menuOpen
    /\ m_menuOpen' = TRUE
    /\ paused' = TRUE
    /\ m_modal' = TRUE
    /\ \E t \in Tids :
          /\ thr[t].pc = "idle"
          /\ \A u \in Tids : u < t => thr[u].pc # "idle"
          /\ thr' = [thr EXCEPT ![t].pc = "start"]
    /\ calls' = calls \cup {Call("pauseGame", "main")}
    /\ UNCHANGED <<sim, snap, recording, recorded, m_lastReplayData>>

\* closeMenu (part_000:103-114)
CloseMenu ==
    /\ m_modal' = FALSE
    /\ m_menuOpen' = FALSE
    /\ paused' = FALSE
    /\ calls' = calls \cup {Call("pauseGame", "main")}
    /\ UNCHANGED <<sim, snap, recording, recorded, m_lastReplayData, thr>>

\* toggleMenu (part_000:47-54), from the M button
ToggleMenu ==
    /\ build = "dfs"
    /\ IF ~m_menuOpen THEN OpenMenu ELSE CloseMenu
    /\ UNCHANGED <<build, level, fsVars, now, rndVars, mainVars>>

\* onCloseClicked (part_000:116-118), the modal's X button
OnCloseClicked ==
    /\ build = "dfs"
    /\ m_modal
    /\ CloseMenu
    /\ UNCHANGED <<build, level, fsVars, now, rndVars, mainVars>>

\* runSolverAndRecord up to the call of dfs(0) (part_000:144-165, 196)
RunSolverStart(t) ==
    /\ build = "dfs"
    /\ thr[t].pc = "start"
    /\ snap' = sim
    /\ recording' = TRUE
    /\ recorded' = FALSE
    /\ thr' = [thr EXCEPT ![t].pc = "dfs",
                          ![t].msgs = <<"Preparing snapshot...", "Searching...">>,
                          ![t].startTime = now,
                          ![t].snap0 = sim,
                          ![t].entrySeq = <<<<>>>>,
                          ![t].stack = <<[pc |-> "enter", entry |-> sim]>>]
    /\ calls' = calls \cup {Call("takeStateSnapshot", "worker"),
                            Call("startRecording", "worker")}
    /\ UNCHANGED <<build, level, fsVars, now, rndVars, mainVars, sim, paused, dfsUiVars>>

\* the mutant lets the search go one frame deeper
DfsCheckResult_OffByOne(t) ==
    IF TimedOut(t) THEN "timeout"
    ELSE IF Frame(t) > MAX_SEARCH_FRAMES THEN "cap"
    ELSE IF GetCurrentPercentInt(sim) >= 100 THEN "success"
    ELSE IF PlayerDestroyed(sim) THEN "dead"
    ELSE "go"

\* the mutant tests success before the depth cap
DfsCheckResult_SuccessFirst(t) ==
    IF TimedOut(t) THEN "timeout"
    ELSE IF GetCurrentPercentInt(sim) >= 100 THEN "success"
    ELSE IF Frame(t) >= MAX_SEARCH_FRAMES THEN "cap"
    ELSE IF PlayerDestroyed(sim) THEN "dead"
    ELSE "go"

\* the checks at the top of dfs(frame) (part_000:168-176)
DfsCheckResult(t) ==
    IF TimedOut(t) THEN "timeout"
    ELSE IF Frame(t) >= MAX_SEARCH_FRAMES THEN "cap"
    ELSE IF GetCurrentPercentInt(sim) >= 100 THEN "success"
    ELSE IF PlayerDestroyed(sim) THEN "dead"
    ELSE "go"

DfsCheck(t) ==
    /\ build = "dfs"
    /\ thr[t].pc = "dfs"
    /\ Top(t).pc = "enter"
    /\ LET res == DfsCheckResult(t)
           r0 == [thr[t] EXCEPT !.stack[Len(thr[t].stack)].entry = sim,
                                !.sawTimeout = @ \/ (res = "timeout")]
       IN thr' = [thr EXCEPT ![t] =
            CASE res = "success" ->
                    Return([r0 EXCEPT !.bestSequence = r0.current], "true")
              [] res = "go" -> [r0 EXCEPT !.stack = SetTop(r0.stack, "noclick")]
              [] OTHER -> Return(r0, "false")]
    /\ calls' = calls \cup
          (IF DfsCheckResult(t) \in {"success", "dead", "go"}
           THEN {Call("getCurrentPercentInt", "worker")} ELSE {})
    /\ UNCHANGED <<build, level, fsVars, now, rndVars, mainVars, engineVars, dfsUiVars>>

\* the mutant goes on searching after a recursive call found a run
ChildFound_Ignored(t) == FALSE

\* part_000:181, 189 and main.cpp:128, 133  if (dfs(frame + 1)) return true;
ChildFound(t) == thr[t].ret = "true"

\* branch "no click": update, push, recurse (part_000:179-181)
DfsNoClick(t) ==
    /\ build = "dfs"
    /\ thr[t].pc = "dfs"
    /\ Top(t).pc = "noclick"
    /\ sim' = Update(sim)
    /\ recorded' = (recorded \/ recording)
    /\ thr' = [thr EXCEPT
          ![t].current = Append(@, FALSE),
          ![t].entrySeq = Append(@, Append(thr[t].current, FALSE)),
          ![t].ret = "none",
          ![t].stack = Append(SetTop(@, "after1"),
                              [pc |-> "enter", entry |-> sim'])]
    /\ calls' = calls \cup {Call("update", "worker")}
    /\ UNCHANGED <<build, level, fsVars, now, rndVars, mainVars, snap, paused, recording, dfsUiVars>>

\* PlayLayer::restoreStateSnapshot(): back to the one snapshot taken
RestoreStateSnapshot(s) == s

\* back from the "no click" branch (part_000:181-183)
DfsAfterNoClick(t) ==
    /\ build = "dfs"
    /\ thr[t].pc = "dfs"
    /\ Top(t).pc = "after1"
    /\ IF ChildFound(t)
       THEN /\ thr' = [thr EXCEPT ![t] = Return(thr[t], "true")]
            /\ UNCHANGED <<sim, calls>>
       ELSE /\ sim' = RestoreStateSnapshot(snap)
            /\ thr' = [thr EXCEPT
                  ![t].current = PopBack(@),
                  ![t].ret = "none",
                  ![t].lastRestore = [frame |-> Frame(t), branch |-> "noclick",
                                      entry |-> Top(t).entry, got |-> sim'],
                  ![t].stack = SetTop(@, "click")]
            /\ calls' = calls \cup {Call("restoreStateSnapshot", "worker")}
    /\ UNCHANGED <<build, level, fsVars, now, rndVars, mainVars, snap, paused, recording, recorded, dfsUiVars>>

\* branch "click": pushButton, update, push, recurse (part_000:186-189)
DfsClick(t) ==
    /\ build = "dfs"
    /\ thr[t].pc = "dfs"
    /\ Top(t).pc = "click"
    /\ sim' = Update(PushButton(sim))
    /\ recorded' = (recorded \/ recording)
    /\ thr' = [thr EXCEPT
          ![t].current = Append(@, TRUE),
          ![t].entrySeq = Append(@, Append(thr[t].current, TRUE)),
          ![t].ret = "none",
          ![t].stack = Append(SetTop(@, "after2"),
                              [pc |-> "enter", entry |-> sim'])]
    /\ calls' = calls \cup {Call("pushButton", "worker"), Call("update", "worker")}
    /\ UNCHANGED <<build, level, fsVars, now, rndVars, mainVars, snap, paused, recording, dfsUiVars>>

\* back from the "click" branch (part_000:189-193)
DfsAfterClick(t) ==
    /\ build = "dfs"
    /\ thr[t].pc = "dfs"
    /\ Top(t).pc = "after2"
    /\ IF ChildFound(t)
       THEN /\ thr' = [thr EXCEPT ![t] = Return(thr[t], "true")]
            /\ UNCHANGED <<sim, calls>>
       ELSE /\ sim' = RestoreStateSnapshot(snap)
            /\ thr' = [thr EXCEPT ![t] =
                  Return([thr[t] EXCEPT
                            !.current = PopBack(@),
                            !.lastRestore = [frame |-> Frame(t), branch |-> "click",
                                             entry |-> Top(t).entry, got |-> sim']],
                         "false")]
            /\ calls' = calls \cup {Call("restoreStateSnapshot", "worker")}
    /\ UNCHANGED <<build, level, fsVars, now, rndVars, mainVars, snap, paused, recording, recorded, dfsUiVars>>

\* runSolverAndRecord after dfs(0) returned (part_000:196-222).  Whether
\* getRecordedReplay() yields data is the engine's: both outcomes are kept.
RunSolverFinish(t) ==
    /\ build = "dfs"
    /\ thr[t].pc = "finish"
    /\ recording' = FALSE
    /\ \E replayString \in (IF recorded THEN {"", "replay"} ELSE {""}) :
          /\ m_lastReplayData' = replayString
          /\ thr' = [thr EXCEPT
                ![t].pc = "done",
                ![t].found = thr[t].ok,
                ![t].msgs = @ \o
                    (IF thr[t].ok THEN <<"Found run! Finalizing...">>
                     ELSE <<"No run found (timeout or no solution).">>) \o
                    (IF replayString # "" THEN <<"Recording ready to export.">>
                     ELSE IF thr[t].ok
                          THEN <<"Run found but replay retrieval failed">>
                          ELSE <<>>)]
    /\ sim' = RestoreStateSnapshot(snap)
    /\ calls' = calls \cup {Call("stopRecording", "worker"),
                            Call("getRecordedReplay", "worker"),
                            Call("restoreStateSnapshot", "worker")}
    /\ UNCHANGED <<build, level, fsVars, now, rndVars, mainVars, snap, paused, recorded, m_menuOpen, m_modal>>

\* the steady clock advances
Tick ==
    /\ now < MaxClock
    /\ now' = now + 1
    /\ UNCHANGED <<build, level, fsVars, engineVars, calls, dfsUiVars, rndVars, mainVars, thr>>

----------------------------------------------------------------------------
(* build "random": randomized trial search (part_002)                      *)

\* part_002:21  MAX_SEARCH_FRAMES = 60 * 30, scaled
RND_MAX_SEARCH_FRAMES == 3
\* part_002:22  MAX_TRIALS = 500, scaled
MAX_TRIALS == 2
\* part_002:23  TIMEOUT_MS = 35 * 1000, scaled to clock ticks
RND_TIMEOUT_MS == 1
\* part_002:81  shortest trial sequence (60), scaled
MIN_SEQ_LEN == 1
\* part_002:81  longest trial sequence (600), scaled
SEQ_LEN_CAP == 2
\* part_002:92  frames stepped after a reset before the replay
WARMUP_FRAMES == 2
\* part_002:128 a status update every so many trials (10), scaled
PROGRESS_EVERY == 2

Min(a, b) == IF a < b THEN a ELSE b

\* PlayLayer::isGameplayActive()
IsGameplayActive(s) == s.started /\ ~PlayerDestroyed(s)

RECURSIVE UpdateTimes(_, _)
UpdateTimes(s, k) == IF k = 0 THEN s ELSE UpdateTimes(Update(s), k - 1)

DigitChars == <<"0", "1", "2", "3", "4", "5", "6", "7", "8", "9">>

\* fmt::format("{}", n): the decimal digits of n
RECURSIVE FormatInt(_)
FormatInt(n) ==
    IF n < 10 THEN <<DigitChars[n + 1]>>
    ELSE FormatInt(n \div 10) \o <<DigitChars[(n % 10) + 1]>>

\* the comma separated list of the click frames (part_002:136-140)
RECURSIVE ClicksToCsv(_)
ClicksToCsv(clicks) ==
    IF clicks = <<>> THEN <<>>
    ELSE IF Len(clicks) = 1 THEN FormatInt(clicks[1])
    ELSE ClicksToCsv(SubSeq(clicks, 1, Len(clicks) - 1))
            \o <<",">> \o FormatInt(clicks[Len(clicks)])

\* the indices (0-based) of the click frames of seq (part_002:115-117)
RECURSIVE ClickFrames(_)
ClickFrames(q) ==
    IF q = <<>> THEN <<>>
    ELSE ClickFrames(SubSeq(q, 1, Len(q) - 1))
            \o (IF q[Len(q)] THEN <<Len(q) - 1>> ELSE <<>>)

Msg(text, trial) == [text |-> text, trial |-> trial]

RndIdleThread ==
    [pc |-> "idle", trial |-> 0, seqLen |-> 0, seq |-> <<>>, f |-> 0,
     found |-> FALSE, foundClicks |-> <<>>, died |-> FALSE, deadline |-> 0,
     msgs |-> <<>>, resets |-> 0, notReady |-> FALSE]

InFlight(t) == thr[t].pc \notin {"idle", "done", "unused"}

\* the mutant starts a solver at every opening of the modal
ShouldStartSolver_Always == TRUE

\* part_002:243  if (!g_modalState.running)
ShouldStartSolver == ~g_modalState.running

\* onMacroButton (part_002:192-249)
RndOnMacroButton ==
    /\ build = "random"
    /\ IF m_macroModalOpen
       THEN /\ g_modalState' = [g_modalState EXCEPT !.modalLayer = FALSE]
            /\ m_macroModalOpen' = FALSE
            /\ paused' = FALSE
            /\ UNCHANGED thr
       ELSE /\ m_macroModalOpen' = TRUE
            /\ paused' = TRUE
            /\ IF ShouldStartSolver
               THEN /\ g_modalState' = [g_modalState EXCEPT !.modalLayer = TRUE,
                                                            !.running = TRUE]
                    /\ \E t \in Tids :
                          /\ thr[t].pc = "idle"
                          /\ \A u \in Tids : u < t => thr[u].pc # "idle"
                          /\ thr' = [thr EXCEPT ![t].pc = "start"]
               ELSE /\ g_modalState' = [g_modalState EXCEPT !.modalLayer = TRUE]
                    /\ UNCHANGED thr
    /\ calls' = calls \cup {Call("pauseGame", "main")}
    /\ UNCHANGED <<build, level, fsVars, now, sim, snap, recording, recorded,
                   dfsUiVars, mainVars>>

\* onCloseClicked (part_002:251-259), the modal's X button
RndOnCloseClicked ==
    /\ build = "random"
    /\ g_modalState.modalLayer
    /\ g_modalState' = [g_modalState EXCEPT !.modalLayer = FALSE]
    /\ paused' = FALSE
    /\ m_macroModalOpen' = FALSE
    /\ calls' = calls \cup {Call("pauseGame", "main")}
    /\ UNCHANGED <<build, level, fsVars, now, sim, snap, recording, recorded,
                   dfsUiVars, mainVars, thr>>

\* solverRun up to the trial loop (part_002:51-77)
SolverStart(t) ==
    /\ build = "random"
    /\ thr[t].pc = "start"
    /\ sim' = IF ~IsGameplayActive(sim) THEN StartGame(sim) ELSE sim
    /\ thr' = [thr EXCEPT ![t].pc = "loop",
                          ![t].msgs = <<Msg("Solver starting...", -1)>>,
                          ![t].notReady = ~IsGameplayActive(sim),
                          ![t].deadline = now + RND_TIMEOUT_MS]
    /\ calls' = calls \cup
          ({Call("isGameplayActive", "worker")} \cup
           (IF ~IsGameplayActive(sim) THEN {Call("startGame", "worker")} ELSE {}))
    /\ UNCHANGED <<build, level, fsVars, now, snap, paused, recording, recorded,
                   dfsUiVars, rndVars, mainVars>>

\* part_002:81  uniform_int_distribution(60, min(MAX_SEARCH_FRAMES, 600))
SeqLenRange == MIN_SEQ_LEN..Min(RND_MAX_SEARCH_FRAMES, SEQ_LEN_CAP)

\* the mutant starts another trial after a trial that reached success
TrialLoopCondition_IgnoreFound(t) ==
    thr[t].trial < MAX_TRIALS /\ now < thr[t].deadline

\* part_002:79  trial < MAX_TRIALS && Clock::now() < deadline && !found
TrialLoopCondition(t) ==
    thr[t].trial < MAX_TRIALS /\ now < thr[t].deadline /\ ~thr[t].found

\* the loop condition and the random draws of one trial (part_002:79-86)
SolverLoop(t) ==
    /\ build = "random"
    /\ thr[t].pc = "loop"
    /\ IF TrialLoopCondition(t)
       THEN \E n \in SeqLenRange : \E q \in BoolSeqsOfLen(n) :
               thr' = [thr EXCEPT ![t].pc = "reset", ![t].seqLen = n,
                                  ![t].seq = q]
       ELSE thr' = [thr EXCEPT ![t].pc = "finish"]
    /\ UNCHANGED <<build, level, fsVars, now, engineVars, calls, dfsUiVars, rndVars,
                   mainVars>>

\* the reset and the frames that follow it (part_002:88-97)
SolverReset(t) ==
    /\ build = "random"
    /\ thr[t].pc = "reset"
    /\ sim' = UpdateTimes(ResetLevelFromStart(sim), WARMUP_FRAMES)
    /\ thr' = [thr EXCEPT ![t].pc = IF 0 < thr[t].seqLen THEN "frame" ELSE "trialEnd",
                          ![t].f = 0, ![t].died = FALSE,
                          ![t].resets = @ + 1]
    /\ calls' = calls \cup {Call("resetLevelFromStart", "worker"),
                            Call("update", "worker")}
    /\ UNCHANGED <<build, level, fsVars, now, snap, paused, recording, recorded,
                   dfsUiVars, rndVars, mainVars>>

\* one frame of the replay of seq (part_002:98-126)
SolverFrame(t) ==
    /\ build = "random"
    /\ thr[t].pc = "frame"
    /\ LET r == thr[t]
           click == r.seq[r.f + 1]
           s1 == Update(IF click THEN PushButton(sim) ELSE sim)
       IN /\ sim' = s1
          /\ calls' = calls \cup
                ({Call("update", "worker"), Call("getCurrentPercentInt", "worker")}
                 \cup (IF click THEN {Call("pushButton", "worker")} ELSE {})
                 \cup (IF GetCurrentPercentInt(s1) < 100
                       THEN {Call("isGameplayActive", "worker")} ELSE {}))
          /\ thr' = [thr EXCEPT ![t] =
                IF GetCurrentPercentInt(s1) >= 100
                THEN [r EXCEPT !.found = TRUE,
                               !.foundClicks = ClickFrames(r.seq),
                               !.pc = "trialEnd"]
                ELSE IF ~IsGameplayActive(s1)
                THEN [r EXCEPT !.died = TRUE, !.pc = "trialEnd"]
                ELSE [r EXCEPT !.f = r.f + 1,
                               !.pc = IF r.f + 1 < r.seqLen THEN "frame"
                                      ELSE "trialEnd"]]
    /\ UNCHANGED <<build, level, fsVars, now, snap, paused, recording, recorded,
                   dfsUiVars, rndVars, mainVars>>

\* the mutant reports only the trials that did not reach success
ShouldReportProgress_UnlessFound(t) ==
    thr[t].trial % PROGRESS_EVERY = 0 /\ ~thr[t].found

\* part_002:128  if (trial % 10 == 0)
ShouldReportProgress(t) == thr[t].trial % PROGRESS_EVERY = 0

\* the end of a trial (part_002:128-131)
SolverTrialEnd(t) ==
    /\ build = "random"
    /\ thr[t].pc = "trialEnd"
    /\ thr' = [thr EXCEPT
          ![t].pc = "loop",
          ![t].msgs = IF ShouldReportProgress(t)
                      THEN Append(@, Msg("Trying... trial", thr[t].trial))
                      ELSE @,
          ![t].trial = @ + 1]
    /\ UNCHANGED <<build, level, fsVars, now, engineVars, calls, dfsUiVars, rndVars,
                   mainVars>>

\* the mutant leaves the flag as it is when solverRun ends
RunningAfterRun_Kept == g_modalState.running

\* part_002:148  g_modalState.running = false;
RunningAfterRun == FALSE

\* solverRun after the trial loop (part_002:133-148); the thread ends and
\* its locals with it
SolverFinish(t) ==
    /\ build = "random"
    /\ thr[t].pc = "finish"
    /\ thr' = [thr EXCEPT
          ![t].pc = "done",
          ![t].trial = 0, ![t].seqLen = 0, ![t].seq = <<>>, ![t].f = 0,
          ![t].died = FALSE, ![t].deadline = 0, ![t].foundClicks = <<>>,
          ![t].resets = 0,
          ![t].msgs = @ \o
              (IF thr[t].found
               THEN <<Msg("Found a run! Preparing export...", -1),
                      Msg("Ready to export (click Export).", -1)>>
               ELSE <<Msg("No run found (timeout / trials exhausted).", -1)>>)]
    /\ g_modalState' = [g_modalState EXCEPT
          !.lastReplayData = IF thr[t].found THEN ClicksToCsv(thr[t].foundClicks)
                             ELSE @,
          !.running = RunningAfterRun]
    /\ UNCHANGED <<build, level, fsVars, now, engineVars, calls, dfsUiVars,
                   m_macroModalOpen, mainVars>>

----------------------------------------------------------------------------
(* Export: the name of the level, the file name, the files written         *)

\* the characters of level names: a lower and an upper case letter, a
\* digit, the underscore, the space, and a byte above 0x7f (of a UTF-8
\* encoded character), which is negative as a plain char
Chars == {"a", "Z", "7", "_", " ", "<E9>"}

\* bound on the length of the level names tried
MaxNameLen == 2
\* bound on the number of exports in a run of the export handlers
MaxExports == 2

\* isalnum in the "C" locale, for a character code in 0..255
IsAlnum(c) == c \in {"a", "Z", "7"}

IsHighByte(c) == c = "<E9>"

\* What the sanitizing loop may leave in place of c.  isalnum((unsigned
\* char)c) (part_002:276) is defined for every byte; isalnum(c) on a plain
\* char (part_000:132, main.cpp:239) is undefined for a negative c, so the
\* byte is kept or replaced.
CharOutcomes(c, castToUnsigned) ==
    IF IsAlnum(c) THEN {c}
    ELSE IF IsHighByte(c) /\ ~castToUnsigned THEN {c, "_"}
    ELSE {"_"}

\* for (auto& c : lvlName) if (!isalnum(c)) c = '_';
SanitizeOutcomes(name, castToUnsigned) ==
    {q \in [1..Len(name) -> Chars] :
        \A i \in 1..Len(name) : q[i] \in CharOutcomes(name[i], castToUnsigned)}

\* fmt::format("{}_{}<ext>", lvlName, (int)t)
FileName(stem, t, ext) == stem \o <<"_">> \o FormatInt(t) \o <<ext>>

\* std::chrono::system_clock::to_time_t(system_clock::now()): the seconds
\* of the wall clock; one tick of the model's clock is one second
EpochSeconds == now

\* the level name of the runs that do not look at names
DefaultLevelName == <<"a", " ", "7">>

\* std::ofstream out(fname); out << content: the file is created or replaced
WriteFile(name, content) ==
    exported' = Append(exported, [name |-> name, content |-> content,
                                  t |-> EpochSeconds])

\* ClickMacroMaker::onExportClicked (part_000:120-142)
DfsOnExportClicked ==
    /\ build = "dfs"
    /\ m_modal
    /\ Len(exportLog) < MaxExports
    /\ IF m_lastReplayData = ""
       THEN /\ UNCHANGED exported
            /\ exportLog' = Append(exportLog, "No replay recorded yet.")
       ELSE /\ \E stem \in SanitizeOutcomes(levelName, FALSE) :
                  WriteFile(FileName(stem, EpochSeconds, ".gdr"),
                            m_lastReplayData)
            /\ exportLog' = Append(exportLog, "exported replay")
    /\ UNCHANGED <<build, level, levelName, now, engineVars, calls, dfsUiVars,
                   rndVars, mainVars, thr>>

\* onExportClicked of the random build (part_002:261-294)
RndOnExportClicked ==
    /\ build = "random"
    /\ g_modalState.modalLayer
    /\ Len(exportLog) < MaxExports
    /\ IF g_modalState.lastReplayData = <<>>
       THEN /\ UNCHANGED exported
            /\ exportLog' = Append(exportLog, "No macro recorded yet.")
       ELSE /\ \E stem \in SanitizeOutcomes(levelName, TRUE) :
                  WriteFile(FileName(stem, EpochSeconds, ".macro.txt"),
                            g_modalState.lastReplayData)
            /\ exportLog' = Append(exportLog, "Exported")
    /\ UNCHANGED <<build, level, levelName, now, engineVars, calls, dfsUiVars,
                   rndVars, mainVars, thr>>

----------------------------------------------------------------------------
(* build "main": AutomaticMacroMaker (src/main.cpp)                        *)

\* main.cpp:38  MAX_SEARCH_FRAMES = 60 * 60 * 2, scaled
MAIN_MAX_SEARCH_FRAMES == 3
\* main.cpp:39  SOLVER_TIMEOUT_MS = 40 * 1000, scaled to clock ticks
SOLVER_TIMEOUT_MS == 1
\* main.cpp:120 SUCCESS_X_THRESHOLD = 5000, scaled
SUCCESS_X_THRESHOLD == 15
\* main.cpp:121 the x progress the solver assumes per frame
X_PER_FRAME == 10

MainIdleThread ==
    [pc |-> "idle", stack |-> <<>>, ret |-> "none", seq |-> <<>>,
     foundSequence |-> <<>>, solverFound |-> FALSE, ok |-> FALSE,
     start |-> 0, sawTimeout |-> FALSE, msgs |-> <<>>, entrySeq |-> <<>>,
     sequence |-> <<>>, snap0 |-> SimStart, ops |-> <<>>, restored |-> SimStart,
     late |-> {}]

\* the mutant runs the callback on the solver thread itself
SolverFinishedThread_Direct == "worker"

\* main.cpp:46-50, 147  runOnMainThread: the callback runs on the main thread
SolverFinishedThread == "main"

\* an access to one of the locals solverFound and foundSequence of
\* onRequestMacro (main.cpp:100-101), made through a reference to it
Access(var, op, by) == [var |-> var, op |-> op, by |-> by]

\* onRequestMacro (main.cpp:63-153): it starts the thread, detaches it and
\* returns, and its locals end with it
OnRequestMacro ==
    /\ paused' = TRUE
    /\ snap' = sim
    /\ \E t \in Tids :
          /\ thr[t].pc = "idle"
          /\ \A u \in Tids : u < t => thr[u].pc # "idle"
          /\ thr' = [thr EXCEPT ![t].pc = "start", ![t].snap0 = sim]
    /\ calls' = calls \cup {Call("pauseGame", "main"),
                            Call("takeStateSnapshot", "main"),
                            Call("getPosition", "main")}

\* onMacroButton (main.cpp:311-363)
MainOnMacroButton ==
    /\ build = "main"
    /\ IF m_modalLayer # 0
       THEN /\ m_modalLayer' = 0
            /\ m_modalStatusLabel' = 0
            /\ paused' = FALSE
            /\ calls' = calls \cup {Call("pauseGame", "main")}
            /\ UNCHANGED <<snap, thr, nModals>>
       ELSE /\ nModals' = nModals + 1
            /\ m_modalLayer' = nModals + 1
            /\ m_modalStatusLabel' = nModals + 1
            /\ OnRequestMacro
    /\ UNCHANGED <<build, level, fsVars, now, sim, recording, recorded, dfsUiVars,
                   rndVars, mainQueue>>

\* onModalClose (main.cpp:366-373), the modal's X button
OnModalClose ==
    /\ build = "main"
    /\ m_modalLayer # 0
    /\ m_modalLayer' = 0
    /\ paused' = FALSE
    /\ calls' = calls \cup {Call("pauseGame", "main")}
    /\ UNCHANGED <<build, level, fsVars, now, sim, snap, recording, recorded, dfsUiVars,
                   rndVars, m_modalStatusLabel, nModals, mainQueue, thr>>

\* the solver thread starts (main.cpp:102-110, 139)
MainSolverStart(t) ==
    /\ build = "main"
    /\ thr[t].pc = "start"
    /\ thr' = [thr EXCEPT ![t].pc = "dfs", ![t].start = now,
                          ![t].entrySeq = <<<<>>>>,
                          ![t].stack = <<"enter">>]
    /\ UNCHANGED <<build, level, fsVars, now, engineVars, calls, dfsUiVars, rndVars,
                   mainVars>>

MFrame(t) == Len(thr[t].stack) - 1
MTop(t) == thr[t].stack[Len(thr[t].stack)]

MReturn(r, v) ==
    LET st == Pop(r.stack) IN
    [r EXCEPT !.stack = st, !.ret = v, !.entrySeq = Pop(@),
              !.pc = IF st = <<>> THEN "schedule" ELSE "dfs",
              !.ok = IF st = <<>> THEN (v = "true") ELSE @]

MCall(r, pc, click) ==
    [r EXCEPT !.seq = Append(@, click), !.ret = "none",
              !.entrySeq = Append(@, Append(r.seq, click)),
              !.stack = Append([@ EXCEPT ![Len(@)] = pc], "enter")]

\* the checks at the top of dfs(frame) (main.cpp:112-124)
MDfsCheckResult(t) ==
    IF now - thr[t].start > SOLVER_TIMEOUT_MS THEN "timeout"
    ELSE IF MFrame(t) >= MAIN_MAX_SEARCH_FRAMES THEN "cap"
    ELSE IF MFrame(t) > 0 /\ MFrame(t) * X_PER_FRAME > SUCCESS_X_THRESHOLD
         THEN "success"
    ELSE "go"

\* dfs(frame) up to the first recursive call (main.cpp:111-128)
MDfsEnter(t) ==
    /\ build = "main"
    /\ thr[t].pc = "dfs"
    /\ MTop(t) = "enter"
    /\ LET res == MDfsCheckResult(t)
           r0 == [thr[t] EXCEPT !.sawTimeout = @ \/ (res = "timeout")]
       IN thr' = [thr EXCEPT ![t] =
            CASE res = "success" ->
                    MReturn([r0 EXCEPT !.foundSequence = r0.seq,
                                       !.late = @ \cup
                                          {Access("foundSequence", "write",
                                                  "worker")}],
                            "true")
              [] res = "go" -> MCall(r0, "after1", FALSE)
              [] OTHER -> MReturn(r0, "false")]
    /\ UNCHANGED <<build, level, fsVars, now, engineVars, calls, dfsUiVars, rndVars,
                   mainVars>>

\* back from branch 1, on to branch 2 (main.cpp:128-133)
MDfsAfter1(t) ==
    /\ build = "main"
    /\ thr[t].pc = "dfs"
    /\ MTop(t) = "after1"
    /\ thr' = [thr EXCEPT ![t] =
          IF ChildFound(t) THEN MReturn(thr[t], "true")
          ELSE MCall([thr[t] EXCEPT !.seq = PopBack(@)],
                     "after2", TRUE)]
    /\ UNCHANGED <<build, level, fsVars, now, engineVars, calls, dfsUiVars, rndVars,
                   mainVars>>

\* back from branch 2 (main.cpp:133-136)
MDfsAfter2(t) ==
    /\ build = "main"
    /\ thr[t].pc = "dfs"
    /\ MTop(t) = "after2"
    /\ thr' = [thr EXCEPT ![t] =
          IF ChildFound(t) THEN MReturn(thr[t], "true")
          ELSE MReturn([thr[t] EXCEPT !.seq = PopBack(@)],
                       "false")]
    /\ UNCHANGED <<build, level, fsVars, now, engineVars, calls, dfsUiVars, rndVars,
                   mainVars>>

\* the solver thread ends: it schedules onSolverFinished (main.cpp:139-150)
MainSolverSchedule(t) ==
    /\ build = "main"
    /\ thr[t].pc = "schedule"
    /\ thr' = [thr EXCEPT ![t].pc = "done", ![t].solverFound = thr[t].ok,
                          ![t].late = @ \cup
                              {Access("solverFound", "write", "worker")},
                          ![t].seq = <<>>, ![t].start = 0]
    /\ mainQueue' = Append(mainQueue, t)
    /\ UNCHANGED <<build, level, fsVars, now, engineVars, calls, dfsUiVars, rndVars,
                   m_modalLayer, m_modalStatusLabel, nModals>>

\* What the callback reads through its references to solverFound and
\* foundSequence, locals of onRequestMacro, which has returned: the values
\* the solver wrote, or whatever the reused stack holds.
SequenceRead(t) ==
    {IF thr[t].solverFound THEN thr[t].foundSequence ELSE <<>>}
        \cup {<<>>, <<TRUE>>}

\* a message of onSolverFinished: on the log, or on the status label of
\* the modal with the given id
LogMsg(text) == [ch |-> "log", text |-> text, label |-> 0, modal |-> 0]
LabelMsgs(text) ==
    IF m_modalStatusLabel # 0
    THEN <<[ch |-> "label", text |-> text, label |-> m_modalStatusLabel,
            modal |-> m_modalLayer]>>
    ELSE <<>>

\* main.cpp:148, 159, 181  the reads of the callback through its references
LateReads(sequence) ==
    {Access("solverFound", "read", SolverFinishedThread)} \cup
    (IF sequence # <<>>
     THEN {Access("foundSequence", "read", SolverFinishedThread)} ELSE {})

\* the record of a search after its callback: the sequence the callback was
\* given, its reads of the solver's variables, its engine calls in their
\* order, the state its restore produced and its messages
Finished(r, sequence, ops, restored, msgs) ==
    [r EXCEPT !.sequence = sequence,
              !.late = @ \cup LateReads(sequence),
              !.ops = ops,
              !.restored = restored,
              !.msgs = @ \o msgs]

\* the mutant resumes the game after an export too
PausedAfterExport_Resume == FALSE

\* main.cpp:252-255  after the export the pause state is left as it is
PausedAfterExport == paused

\* the engine calls of the replay of a sequence, in their order
\* (main.cpp:174-208)
RECURSIVE StepOps(_)
StepOps(q) ==
    IF q = <<>> THEN <<>>
    ELSE (IF Head(q) THEN <<"pushButton", "update">> ELSE <<"update">>)
             \o StepOps(Tail(q))

ReplayOps(q) == <<"startRecording">> \o StepOps(q) \o <<"stopRecording">>

\* onSolverFinished (main.cpp:156-255), run from the scheduler's queue; an
\* empty sequence stands for the null pointer too (main.cpp:159)
OnSolverFinished ==
    /\ build = "main"
    /\ mainQueue # <<>>
    /\ mainQueue' = Tail(mainQueue)
    /\ LET t == Head(mainQueue) IN
       \E sequence \in SequenceRead(t) :
          IF sequence = <<>>
          THEN /\ sim' = RestoreStateSnapshot(snap)
               /\ paused' = FALSE
               /\ calls' = calls \cup
                     {Call("restoreStateSnapshot", SolverFinishedThread),
                      Call("pauseGame", SolverFinishedThread)}
               /\ thr' = [thr EXCEPT ![t] =
                     Finished(thr[t], sequence,
                              <<"restoreStateSnapshot", "pauseGame">>, sim',
                              <<LogMsg("solver did not find a sequence")>>
                                 \o LabelMsgs("No solution found."))]
               /\ UNCHANGED <<recording, recorded, exported>>
          ELSE \E replayData \in {"", "replay"} :
               /\ recording' = FALSE
               /\ recorded' = TRUE
               /\ sim' = RestoreStateSnapshot(snap)
               /\ paused' = IF replayData = "" THEN FALSE ELSE PausedAfterExport
               /\ calls' = calls \cup
                     ({Call(op, SolverFinishedThread) :
                          op \in {"startRecording", "update", "stopRecording",
                                  "restoreStateSnapshot"}}
                      \cup (IF TRUE \in {sequence[i] : i \in 1..Len(sequence)}
                            THEN {Call("pushButton", SolverFinishedThread)}
                            ELSE {})
                      \cup (IF replayData = ""
                            THEN {Call("pauseGame", SolverFinishedThread)}
                            ELSE {}))
               /\ IF replayData = ""
                  THEN /\ thr' = [thr EXCEPT ![t] =
                             Finished(thr[t], sequence,
                                      ReplayOps(sequence) \o
                                         <<"restoreStateSnapshot", "pauseGame">>,
                                      sim',
                                      LabelMsgs("Solved but export failed (no replay)."))]
                       /\ UNCHANGED exported
                  ELSE /\ \E stem \in SanitizeOutcomes(levelName, FALSE) :
                             WriteFile(<<"AutomaticMacroMaker/">> \o
                                          FileName(stem, EpochSeconds, ".gdr"),
                                       replayData)
                       /\ thr' = [thr EXCEPT ![t] =
                             Finished(thr[t], sequence,
                                      ReplayOps(sequence) \o
                                         <<"restoreStateSnapshot">>,
                                      sim',
                                      <<LogMsg("exported replay")>>
                                         \o LabelMsgs("Exported"))]
    /\ UNCHANGED <<build, level, levelName, exportLog, now, snap, dfsUiVars,
                   rndVars, m_modalLayer, m_modalStatusLabel, nModals>>

----------------------------------------------------------------------------

InitEngine ==
    /\ now = 0
    /\ levelName = DefaultLevelName
    /\ exported = <<>>
    /\ exportLog = <<>>
    /\ sim = SimStart
    /\ snap = SimStart
    /\ paused = FALSE
    /\ recording = FALSE
    /\ recorded = FALSE
    /\ calls = {}

\* the state of the drafts that are not loaded
InitOtherBuilds ==
    /\ m_macroModalOpen = FALSE
    /\ g_modalState = [modalLayer |-> FALSE, lastReplayData |-> <<>>,
                       running |-> FALSE]
    /\ m_modalLayer = 0
    /\ m_modalStatusLabel = 0
    /\ nModals = 0
    /\ mainQueue = <<>>

\* a single usable thread slot: one search in a run
OneSlot(idle) ==
    [t \in Tids |-> IF t = 1 THEN idle ELSE [idle EXCEPT !.pc = "unused"]]

\* one search: the menu is opened once
InitDfs ==
    /\ build = "dfs"
    /\ level \in Levels
    /\ InitEngine
    /\ m_menuOpen = FALSE
    /\ m_modal = FALSE
    /\ m_lastReplayData = ""
    /\ InitOtherBuilds
    /\ thr = OneSlot(IdleThread)

NextMenu ==
    \/ ToggleMenu
    \/ OnCloseClicked
    \/ \E t \in Tids :
          \/ RunSolverStart(t)
          \/ DfsCheck(t)
          \/ DfsNoClick(t)
          \/ DfsAfterNoClick(t)
          \/ DfsClick(t)
          \/ DfsAfterClick(t)
          \/ RunSolverFinish(t)

NextDfs == NextMenu \/ Tick

SpecDfs == InitDfs /\ [][NextDfs]_vars

\* several searches: every press of M that opens the menu starts a thread;
\* the levels are those decided by their first frame
InitMenu ==
    /\ build = "dfs"
    /\ level \in {l \in Levels : Len(l.goal) = 1 /\ l.trap # <<>>}
    /\ InitEngine
    /\ m_menuOpen = FALSE
    /\ m_modal = FALSE
    /\ m_lastReplayData = ""
    /\ InitOtherBuilds
    /\ thr = [t \in Tids |-> IdleThread]

\* the searches are short: the clock does not advance while they run
SpecMenu == InitMenu /\ [][NextMenu]_vars

\* the levels of the random build: the frames stepped after a reset come
\* before the first frame of a trial
RndLevels ==
    {[goal |-> <<FALSE, FALSE, TRUE>>, trap |-> <<FALSE, FALSE, FALSE>>],
     [goal |-> <<FALSE, FALSE, FALSE, TRUE>>, trap |-> <<>>]}

InitRandBase ==
    /\ build = "random"
    /\ level \in RndLevels
    /\ now = 0
    /\ levelName = DefaultLevelName
    /\ exported = <<>>
    /\ exportLog = <<>>
    /\ sim \in {SimStart, [SimStart EXCEPT !.started = FALSE]}
    /\ snap = SimStart
    /\ paused = FALSE
    /\ recording = FALSE
    /\ recorded = FALSE
    /\ calls = {}
    /\ m_menuOpen = FALSE
    /\ m_modal = FALSE
    /\ m_lastReplayData = ""
    /\ InitOtherBuilds

InitRand == InitRandBase /\ thr = [t \in Tids |-> RndIdleThread]

\* one solverRun in a run
InitRandOne == InitRandBase /\ thr = OneSlot(RndIdleThread)

NextRand ==
    \/ RndOnMacroButton
    \/ RndOnCloseClicked
    \/ Tick
    \/ \E t \in Tids :
          \/ SolverStart(t)
          \/ SolverLoop(t)
          \/ SolverReset(t)
          \/ SolverFrame(t)
          \/ SolverTrialEnd(t)
          \/ SolverFinish(t)

SpecRand == InitRand /\ [][NextRand]_vars

\* the solver threads run; the clock goes on up to the horizon of the model
FairRand ==
    /\ WF_vars(Tick)
    /\ \A t \in Tids :
          WF_vars(SolverStart(t) \/ SolverLoop(t) \/ SolverReset(t)
                     \/ SolverFrame(t) \/ SolverTrialEnd(t) \/ SolverFinish(t))

\* two searches, one after the other, on a level that a trial can complete,
\* fail or die on
InitRandPair ==
    /\ build = "random"
    /\ level = [goal |-> <<FALSE, FALSE, TRUE>>,
                trap |-> <<FALSE, FALSE, FALSE>>]
    /\ InitEngine
    /\ m_menuOpen = FALSE
    /\ m_modal = FALSE
    /\ m_lastReplayData = ""
    /\ InitOtherBuilds
    /\ thr = [t \in Tids |-> IF t <= 2 THEN RndIdleThread
                              ELSE [RndIdleThread EXCEPT !.pc = "unused"]]

FairSpecRand == InitRandPair /\ [][NextRand]_vars /\ FairRand

InitMainBase ==
    /\ build = "main"
    /\ level \in {l \in Levels : Len(l.goal) = 1 /\ l.trap = <<>>}
    /\ InitEngine
    /\ m_menuOpen = FALSE
    /\ m_modal = FALSE
    /\ m_lastReplayData = ""
    /\ InitOtherBuilds

InitMain == InitMainBase /\ thr = [t \in Tids |-> MainIdleThread]

\* one solver thread in a run
InitMainOne == InitMainBase /\ thr = OneSlot(MainIdleThread)

NextMain ==
    \/ MainOnMacroButton
    \/ OnModalClose
    \/ OnSolverFinished
    \/ Tick
    \/ \E t \in Tids :
          \/ MainSolverStart(t)
          \/ MDfsEnter(t)
          \/ MDfsAfter1(t)
          \/ MDfsAfter2(t)
          \/ MainSolverSchedule(t)

SpecMain == InitMain /\ [][NextMain]_vars

\* one request of a macro in a run
SpecMainOne == InitMainOne /\ [][NextMain]_vars

\* frames of live play in a run
MaxLiveFrames == 1

\* the game runs on while it is not paused: the engine steps a frame with
\* the player's input
LiveFrame ==
    /\ build = "main"
    /\ ~paused
    /\ Len(sim.hist) < MaxLiveFrames
    /\ \E click \in BOOLEAN :
          sim' = Update(IF click THEN PushButton(sim) ELSE sim)
    /\ recorded' = (recorded \/ recording)
    /\ UNCHANGED <<build, level, fsVars, now, snap, paused, recording, calls,
                   dfsUiVars, rndVars, mainVars, thr>>

NextMainLive == NextMain \/ LiveFrame

\* the main build with the game running on between the requests
SpecMainLive == InitMain /\ [][NextMainLive]_vars

\* the threads run and the scheduler runs what is queued; the clock goes on
\* up to the horizon of the model
FairMain ==
    /\ WF_vars(Tick)
    /\ WF_vars(OnSolverFinished)
    /\ \A t \in Tids :
          WF_vars(MainSolverStart(t) \/ MDfsEnter(t) \/ MDfsAfter1(t)
                     \/ MDfsAfter2(t) \/ MainSolverSchedule(t))

FairSpecMain == SpecMainOne /\ FairMain

\* The encoder of a found run, on its own: each slot holds one decision
\* sequence of a found run and, once encoded, its text (part_002:112-141).
InitEncode ==
    /\ build = "encode"
    /\ level \in {l \in RndLevels : l.trap = <<>>}
    /\ InitEngine
    /\ m_menuOpen = FALSE
    /\ m_modal = FALSE
    /\ m_lastReplayData = ""
    /\ InitOtherBuilds
    /\ thr \in [Tids -> {[pc |-> "in", seq |-> q, foundClicks |-> <<>>,
                          outStr |-> <<>>] :
                            q \in BoolSeqsUpTo(RND_MAX_SEARCH_FRAMES)}]

\* foundClicks of the sequence and its text (part_002:114-117, 135-140)
Encode(t) ==
    /\ build = "encode"
    /\ thr[t].pc = "in"
    /\ thr' = [thr EXCEPT ![t].pc = "out",
                          ![t].foundClicks = ClickFrames(thr[t].seq),
                          ![t].outStr = ClicksToCsv(ClickFrames(thr[t].seq))]
    /\ UNCHANGED <<build, level, fsVars, now, engineVars, calls, dfsUiVars,
                   rndVars, mainVars>>

NextEncode == \E t \in Tids : Encode(t)

SpecEncode == InitEncode /\ [][NextEncode]_vars

\* the level names tried
Names == UNION {[1..n -> Chars] : n \in 0..MaxNameLen}

\* One search and the Export button, for every level name: the dfs build
\* on a level completed by one frame without a click, the random build on a
\* level completed by a click on the first frame of a trial.
InitExport ==
    /\ \/ /\ build = "dfs"
          /\ level = [goal |-> <<FALSE>>, trap |-> <<>>]
          /\ thr = OneSlot(IdleThread)
       \/ /\ build = "random"
          /\ level = [goal |-> <<FALSE, FALSE, TRUE>>,
                      trap |-> <<FALSE, FALSE, FALSE>>]
          /\ thr = OneSlot(RndIdleThread)
    /\ levelName \in Names
    /\ exported = <<>>
    /\ exportLog = <<>>
    /\ now = 0
    /\ sim = SimStart
    /\ snap = SimStart
    /\ paused = FALSE
    /\ recording = FALSE
    /\ recorded = FALSE
    /\ calls = {}
    /\ m_menuOpen = FALSE
    /\ m_modal = FALSE
    /\ m_lastReplayData = ""
    /\ InitOtherBuilds

NextExport ==
    \/ NextDfs
    \/ NextRand
    \/ DfsOnExportClicked
    \/ RndOnExportClicked

SpecExport == InitExport /\ [][NextExport]_vars

\* levels of the random build for the Export button: one completed by a
\* trial without a click, one completed by a click on a trial's first frame
RndExportLevels ==
    {[goal |-> <<FALSE, FALSE, FALSE>>, trap |-> <<>>],
     [goal |-> <<FALSE, FALSE, TRUE>>, trap |-> <<FALSE, FALSE, FALSE>>]}

\* the random build with its Export button, several searches in a run
InitRndExport ==
    /\ build = "random"
    /\ level \in RndExportLevels
    /\ InitEngine
    /\ m_menuOpen = FALSE
    /\ m_modal = FALSE
    /\ m_lastReplayData = ""
    /\ InitOtherBuilds
    /\ thr = [t \in Tids |-> RndIdleThread]

NextRndExport == NextRand \/ RndOnExportClicked

SpecRndExport == InitRndExport /\ [][NextRndExport]_vars

\* any of the drafts, with one search in a run
Init == InitDfs \/ InitRandOne \/ InitMainOne

Next == NextDfs \/ NextRand \/ NextMain

Spec == Init /\ [][Next]_vars

----------------------------------------------------------------------------
(* Claims about the backtracking DFS of build "dfs"                        *)

SearchEnded(t) == thr[t].pc \in {"finish", "done"}

\* the sequences of length below MAX_SEARCH_FRAMES whose replay from the
\* search's snapshot reaches success
Winning(t) ==
    {q \in BoolSeqsUpTo(MAX_SEARCH_FRAMES - 1) :
        GetCurrentPercentInt(Replay(thr[t].snap0, q)) >= 100}

\* C1: whenever dfs(0) returned true, replaying bestSequence frame by frame
\* from the state of the snapshot taken before the search reaches success
\* (percent >= 100) after the last element.
C1_ReplayReachesSuccess ==
    \A t \in Tids :
        (SearchEnded(t) /\ thr[t].ok) =>
            GetCurrentPercentInt(Replay(thr[t].snap0, thr[t].bestSequence)) >= 100

\* C2: every restore done by dfs at frame f, after the failed no-click branch
\* and after the failed click branch, returns the simulation to the state it
\* had on entry to frame f.
C2_RestoreReturnsToEntry ==
    \A t \in Tids :
        thr[t].lastRestore.frame >= 0 =>
            thr[t].lastRestore.got = thr[t].lastRestore.entry

\* C3: when the deadline is not hit, the search returns the lexicographically
\* smallest (FALSE < TRUE) sequence of length below MAX_SEARCH_FRAMES whose
\* replay reaches success, and not found if there is none.
C3_LexSmallest ==
    \A t \in Tids :
        (SearchEnded(t) /\ ~thr[t].sawTimeout) =>
            IF Winning(t) = {} THEN ~thr[t].ok
            ELSE /\ thr[t].ok
                 /\ thr[t].bestSequence \in Winning(t)
                 /\ \A q \in Winning(t) :
                       q = thr[t].bestSequence \/ LexLess(thr[t].bestSequence, q)

\* an update, a button push or a restore done by the dfs of thread t
DfsEngineStep(t) ==
    \/ DfsNoClick(t)
    \/ DfsClick(t)
    \/ (DfsAfterNoClick(t) /\ thr[t].ret # "true")
    \/ (DfsAfterClick(t) /\ thr[t].ret # "true")

\* C4: once a dfs call of a search has seen the deadline exceeded, the dfs of
\* that search does no further update, button push or restore, and the search
\* ends not found.
C4_AbortOnTimeout ==
    /\ [][\A t \in Tids : thr[t].sawTimeout => ~DfsEngineStep(t)]_vars
    /\ [](\A t \in Tids : (thr[t].sawTimeout /\ SearchEnded(t)) => ~thr[t].ok)

----------------------------------------------------------------------------
(* Claims about threads, the engine and the length of the candidate        *)

\* the solverRun threads of build "random" that have started and not ended
SolversInFlight == {t \in Tids : InFlight(t)}

\* C5: in build "random" at most one solverRun thread is in flight at any
\* time, however the macro button and the modal's close button are pressed.
C5_OneSolverInFlight ==
    build = "random" => Cardinality(SolversInFlight) <= 1

\* the modal was closed and opened again while the search of slot 1 ran, and
\* no second search was started
C5_ReopenedWhileRunning ==
    /\ build = "random"
    /\ m_macroModalOpen
    /\ g_modalState.running
    /\ InFlight(1)
    /\ thr[2].pc = "idle"
    /\ \E c \in calls : ~c.paused

\* the runSolverAndRecord threads of build "dfs" that have started and not
\* ended
SearchesInFlight == {t \in Tids : thr[t].pc \in {"start", "dfs", "finish"}}

\* C6: in build "dfs" no two runSolverAndRecord searches are in flight at
\* the same time on the same PlayLayer.
C6_OneSearchInFlight ==
    build = "dfs" => Cardinality(SearchesInFlight) <= 1

\* C7: every operation on the simulation (PlayLayer) is invoked from the
\* main thread; the search never calls it from a worker thread.
C7_EngineCallsOnMainThread ==
    build \in {"dfs", "random"} => \A c \in calls : c.by = "main"

\* a step of the background solver of build "main"
MainSolverStep(t) ==
    \/ MainSolverStart(t)
    \/ MDfsEnter(t)
    \/ MDfsAfter1(t)
    \/ MDfsAfter2(t)
    \/ MainSolverSchedule(t)

\* C8: in build "main" the background solver makes no engine call and
\* leaves the engine's state alone; every PlayLayer operation is made on the
\* main thread.
C8_SolverMakesNoEngineCall ==
    /\ [](build = "main" => \A c \in calls : c.by = "main")
    /\ [][\A t \in Tids : MainSolverStep(t) => UNCHANGED <<engineVars, calls>>]_vars

\* a solver has found a sequence and finished, and onSolverFinished has
\* replayed a sequence
C8_ReplayedOnMainThread ==
    /\ build = "main"
    /\ \E t \in Tids : thr[t].pc = "done"
    /\ mainQueue = <<>>
    /\ \E t \in Tids : thr[t].solverFound
    /\ \E c \in calls : c.op = "update"

\* C9: the solver steps and resets the simulation only while the game is
\* paused.
C9_StepsOnlyWhilePaused ==
    build = "random" => \A c \in calls : c.op \in SteppingOps => c.paused

\* C10: the candidate sequence of a search never has more than
\* MAX_SEARCH_FRAMES elements, and so neither has a sequence the search
\* records as found.
C10_CandidateWithinCap ==
    \A t \in Tids :
        /\ build = "dfs" =>
              /\ Len(thr[t].current) <= MAX_SEARCH_FRAMES
              /\ Len(thr[t].bestSequence) <= MAX_SEARCH_FRAMES
        /\ build = "random" =>
              /\ Len(thr[t].seq) <= RND_MAX_SEARCH_FRAMES
              /\ \A i \in 1..Len(thr[t].foundClicks) :
                    thr[t].foundClicks[i] < RND_MAX_SEARCH_FRAMES
        /\ build = "main" =>
              /\ Len(thr[t].seq) <= MAIN_MAX_SEARCH_FRAMES
              /\ Len(thr[t].foundSequence) <= MAIN_MAX_SEARCH_FRAMES

\* a dfs of build "dfs" stands at the frame cap with a candidate of
\* MAX_SEARCH_FRAMES elements
C10_CandidateAtCap ==
    /\ build = "dfs"
    /\ \E t \in Tids :
          /\ thr[t].pc = "dfs"
          /\ Len(thr[t].current) = MAX_SEARCH_FRAMES
          /\ Frame(t) = MAX_SEARCH_FRAMES

----------------------------------------------------------------------------
(* Claims about the randomized search of build "random"                    *)

\* a trial of thread t has reached success at frame thr[t].f and solverRun
\* has not ended
FoundRun(t) ==
    /\ build = "random"
    /\ thr[t].found
    /\ thr[t].pc \in {"trialEnd", "loop", "finish"}

\* C11: when a trial reaches success after stepping frame f, the reported
\* click list holds only the part of the sequence that was played: every
\* frame index in foundClicks is at most f.
C11_FoundClicksWithinPlayed ==
    \A t \in Tids :
        FoundRun(t) =>
            \A i \in 1..Len(thr[t].foundClicks) : thr[t].foundClicks[i] <= thr[t].f

\* the decision sequence of n frames that clicks exactly on the listed frames
ClicksToSeq(clicks, n) ==
    [i \in 1..n |-> \E j \in 1..Len(clicks) : clicks[j] = i - 1]

\* C12: when solverRun has found a run, resetting the simulation and stepping
\* it once per frame index from index 0, clicking exactly on the indices of
\* the click list, reaches success (at some number of frames).
C12_ClickListReplays ==
    \A t \in Tids :
        FoundRun(t) =>
            \E n \in 0..HistCap :
                GetCurrentPercentInt(
                    Replay(ResetLevelFromStart(sim),
                           ClicksToSeq(thr[t].foundClicks, n))) >= 100

\* C13: solverRun starts at most MAX_TRIALS trials, each trial does exactly
\* one resetLevelFromStart before its first replay step, and a trial is
\* started only while the deadline has not passed and no trial has succeeded.
C13_TrialBudget ==
    /\ [](build = "random" =>
            \A t \in Tids :
                /\ thr[t].resets <= MAX_TRIALS
                /\ thr[t].pc \in {"frame", "trialEnd"} =>
                      thr[t].resets = thr[t].trial + 1
                /\ thr[t].pc \in {"loop", "reset", "finish"} =>
                      thr[t].resets = thr[t].trial)
    /\ [][\A t \in Tids :
            (build = "random" /\ thr[t].pc = "loop" /\ thr'[t].pc = "reset") =>
                /\ thr[t].trial < MAX_TRIALS
                /\ now < thr[t].deadline
                /\ ~thr[t].found]_vars

\* all MAX_TRIALS trials were run, none of them succeeded and the deadline
\* has not passed
C13_TrialsExhausted ==
    /\ build = "random"
    /\ \E t \in Tids :
          /\ thr[t].pc = "finish"
          /\ thr[t].resets = MAX_TRIALS
          /\ ~thr[t].found
          /\ now < thr[t].deadline

\* C16: when the simulation is not drivable at the start of solverRun
\* (isGameplayActive is false), the search runs no trial, does no reset and
\* no step, and ends not found.
C16_NotReadyAborts ==
    \A t \in Tids :
        (build = "random" /\ thr[t].notReady) =>
            /\ thr[t].pc \notin {"reset", "frame", "trialEnd"}
            /\ thr[t].trial = 0
            /\ thr[t].resets = 0
            /\ ~thr[t].found

----------------------------------------------------------------------------
(* Claims about the messages and the replay data of build "dfs"            *)

\* C15: the messages of one runSolverAndRecord end with the one message that
\* tells the outcome: the last message is the not-found message exactly when
\* dfs returned false, it is the found message when dfs returned true, and
\* no message follows it.
C15_OutcomeMessageLast ==
    \A t \in Tids :
        (build = "dfs" /\ thr[t].pc = "done") =>
            /\ thr[t].msgs # <<>>
            /\ thr[t].msgs[Len(thr[t].msgs)] =
                  (IF thr[t].ok THEN "Found run! Finalizing..."
                   ELSE "No run found (timeout or no solution).")

\* C18: m_lastReplayData is non-empty (so that Export writes a file) only
\* if the dfs of a search has returned true.
C18_ReplayOnlyAfterFound ==
    (build = "dfs" /\ m_lastReplayData # "") =>
        \E t \in Tids : thr[t].pc = "done" /\ thr[t].ok

----------------------------------------------------------------------------
(* Claims about the end of a search                                        *)

\* the thread of a search was created
SearchStarted(t) == thr[t].pc = "start"

\* the search of slot t is over; in build "main" its callback has run too
SearchOver(t) ==
    /\ thr[t].pc = "done"
    /\ build = "main" => \A i \in 1..Len(mainQueue) : mainQueue[i] # t

\* the search of slot t has emitted a message that tells its outcome
SaidOutcome(t) ==
    \E i \in 1..Len(thr[t].msgs) :
        CASE build = "dfs" ->
                thr[t].msgs[i] \in {"Found run! Finalizing...",
                                    "No run found (timeout or no solution)."}
          [] build = "random" ->
                thr[t].msgs[i].text \in
                    {"Found a run! Preparing export...",
                     "No run found (timeout / trials exhausted)."}
          [] OTHER -> TRUE

\* C14: every search that is started ends, the clock going on, and has by
\* then emitted a message that tells its outcome; no search ends silently.
C14_EndsWithOutcomeMessage ==
    \A t \in Tids : SearchStarted(t) ~> (SearchOver(t) /\ SaidOutcome(t))

----------------------------------------------------------------------------
(* Claims about the text of a found run and about the exported files       *)

\* C17: the text of a found run (the comma separated indices of its click
\* frames) is injective on decision sequences of at most MAX_SEARCH_FRAMES
\* frames: two different sequences never have the same text.
C17_EncodingInjective ==
    \A t, u \in Tids :
        (/\ build = "encode"
         /\ thr[t].pc = "out"
         /\ thr[u].pc = "out"
         /\ thr[t].seq # thr[u].seq) => thr[t].outStr # thr[u].outStr

\* C19: no export overwrites an earlier one: any two exports of a session,
\* also two made within the same second of the clock, write files of
\* different names.
C19_ExportNamesDistinct ==
    \A i, j \in 1..Len(exported) :
        i # j => exported[i].name # exported[j].name

\* the level name with every character that is not a letter or a digit
\* replaced by the underscore
Sanitized(name) ==
    [i \in 1..Len(name) |-> IF IsAlnum(name[i]) THEN name[i] ELSE "_"]

\* C20: for every level name the name of an exported file is the sanitized
\* level name (same length, letters and digits kept, every other character
\* replaced by '_'), an underscore, the seconds of the clock and a fixed
\* extension.
C20_FileNameFormat ==
    \A i \in 1..Len(exported) :
        \E dir \in {<<>>, <<"AutomaticMacroMaker/">>} :
            \E ext \in {".gdr", ".macro.txt"} :
                exported[i].name =
                    dir \o FileName(Sanitized(levelName), exported[i].t, ext)

----------------------------------------------------------------------------
(* The depth-first search on a toy level                                   *)

\* the frame, counted from 0, at which the toy level wants the button
ToyEngage == 1

\* the frames the toy level takes: one fewer than the depth cap
ToyLen == MAX_SEARCH_FRAMES - 1

\* the toy level: completed when frame index ToyLen - 1 is reached with the
\* button engaged at frame ToyEngage; the input of every other frame is free
ToyLevel ==
    [goal |-> [i \in 1..ToyLen |-> i = ToyEngage + 1],
     trap |-> <<>>,
     free |-> (1..ToyLen) \ {ToyEngage + 1}]

\* the run a depth-first search, no-click first, finds first on the toy level
ToyExpected == [i \in 1..ToyLen |-> i = ToyEngage + 1]

InitToy ==
    /\ build = "dfs"
    /\ level = ToyLevel
    /\ InitEngine
    /\ m_menuOpen = FALSE
    /\ m_modal = FALSE
    /\ m_lastReplayData = ""
    /\ InitOtherBuilds
    /\ thr = OneSlot(IdleThread)

SpecToy == InitToy /\ [][NextDfs]_vars

\* C21: on the toy level (success when the last toy frame is reached with
\* the button engaged at frame ToyEngage), the deadline not hit, the search
\* returns exactly the run that clicks at frame ToyEngage only and has
\* ToyLen frames.
C21_ToyRunFound ==
    \A t \in Tids :
        (SearchEnded(t) /\ ~thr[t].sawTimeout) =>
            (thr[t].ok /\ thr[t].bestSequence = ToyExpected)

----------------------------------------------------------------------------
(* Claims about the progress messages of the randomized search             *)

\* the trials whose end the search of slot t has passed
TrialsEnded(t) == 0..(thr[t].trial - 1)

\* how many progress messages the search of slot t has emitted for trial k
ProgressCount(t, k) ==
    Cardinality({i \in 1..Len(thr[t].msgs) :
                    thr[t].msgs[i] = Msg("Trying... trial", k)})

----------------------------------------------------------------------------
(* Claims about the order of the checks of dfs and about its call stack    *)

\* the call of dfs on top of the stack of slot t is at its entry checks
AtEntry(t) ==
    /\ thr[t].pc = "dfs"
    /\ \/ build = "dfs" /\ Top(t).pc = "enter"
       \/ build = "main" /\ MTop(t) = "enter"

\* the sequence a search has found
Found(r) == IF build = "dfs" THEN r.bestSequence ELSE r.foundSequence

\* the depth cap of the loaded build
DepthCap == IF build = "dfs" THEN MAX_SEARCH_FRAMES ELSE MAIN_MAX_SEARCH_FRAMES

\* the step of the entry checks of a call of dfs at frame f
CheckedAtEntry(t) ==
    /\ build \in {"dfs", "main"}
    /\ AtEntry(t)
    /\ thr'[t] # thr[t]

\* C23: the depth cap is tested before success: a call of dfs at a frame
\* at or above the cap returns false and records nothing, also when the
\* simulation is in a success state; so a call that detects success is at a
\* frame strictly below the cap and the sequence it records has that frame
\* as its length.
C23_CapBeforeSuccess ==
    [][\A t \in Tids :
          CheckedAtEntry(t) =>
              /\ Len(thr[t].stack) - 1 >= DepthCap =>
                    /\ thr'[t].ret = "false"
                    /\ Found(thr'[t]) = Found(thr[t])
              /\ thr'[t].ret = "true" =>
                    /\ Len(thr[t].stack) - 1 < DepthCap
                    /\ Len(Found(thr'[t])) = Len(thr[t].stack) - 1]_vars

\* a call at the depth cap has returned false although the simulation was
\* in a success state, the deadline not hit
C23_SuccessAtCapRefused ==
    \E t \in Tids :
        /\ build = "dfs"
        /\ thr[t].pc = "dfs"
        /\ Frame(t) = MAX_SEARCH_FRAMES - 1
        /\ Top(t).pc \in {"after1", "after2"}
        /\ thr[t].ret = "false"
        /\ ~thr[t].sawTimeout
        /\ GetCurrentPercentInt(sim) >= 100

\* the accumulated sequence of a search
Accumulated(r) == IF build = "dfs" THEN r.current ELSE r.seq

\* C24: once a call of dfs has detected success, every enclosing call
\* returns true at once: none of them steps the simulation, pushes the
\* button, restores the snapshot or pops the accumulated sequence.
C24_ShortCircuit ==
    [][\A t \in Tids :
          (/\ build \in {"dfs", "main"}
           /\ thr[t].pc = "dfs"
           /\ thr[t].ret = "true"
           /\ thr'[t] # thr[t]) =>
              /\ thr'[t].ret = "true"
              /\ thr'[t].stack = Pop(thr[t].stack)
              /\ Accumulated(thr'[t]) = Accumulated(thr[t])
              /\ Found(thr'[t]) = Found(thr[t])
              /\ sim' = sim
              /\ calls' = calls]_vars

\* a search has found a run of two frames or more: the calls enclosing the
\* one that detected success have all returned, the accumulated sequence
\* still the run found
C24_EnclosingReturned ==
    \E t \in Tids :
        /\ build \in {"dfs", "main"}
        /\ thr[t].pc \in {"finish", "schedule"}
        /\ thr[t].ok
        /\ Len(Found(thr[t])) >= 2
        /\ Accumulated(thr[t]) = Found(thr[t])

\* C25: on entry to dfs(frame) the accumulated sequence has exactly frame
\* elements, and whenever a call of dfs returns false the accumulated
\* sequence is the one it was on entry to that call.
C25_StackDiscipline ==
    [][\A t \in Tids :
          (build \in {"dfs", "main"} /\ thr[t].pc = "dfs") =>
              /\ AtEntry(t) =>
                    /\ Len(Accumulated(thr[t])) = Len(thr[t].stack) - 1
                    /\ Accumulated(thr[t]) = thr[t].entrySeq[Len(thr[t].stack)]
              /\ (/\ Len(thr'[t].stack) < Len(thr[t].stack)
                  /\ thr'[t].ret = "false") =>
                    Accumulated(thr'[t]) = thr[t].entrySeq[Len(thr[t].stack)]]_vars

\* a call of dfs that tried both of its branches has returned false, the
\* deadline not hit
C25_ReturnedFalseAfterBranches ==
    \E t \in Tids :
        /\ build = "dfs"
        /\ thr[t].pc = "dfs"
        /\ thr[t].ret = "false"
        /\ ~thr[t].sawTimeout
        /\ thr[t].lastRestore.frame >= 1
        /\ thr[t].lastRestore.branch = "click"
        /\ Len(thr[t].stack) = thr[t].lastRestore.frame
        /\ Len(thr[t].current) = thr[t].lastRestore.frame

----------------------------------------------------------------------------
(* Claims about the solver and the callback of src/main.cpp                *)

\* the smallest frame index f > 0 with f * X_PER_FRAME > SUCCESS_X_THRESHOLD
SuccessFrame ==
    CHOOSE f \in 1..(SUCCESS_X_THRESHOLD + 1) :
        /\ f * X_PER_FRAME > SUCCESS_X_THRESHOLD
        /\ \A g \in 1..(f - 1) : g * X_PER_FRAME <= SUCCESS_X_THRESHOLD

\* the run of SuccessFrame frames without a click
NoClickRun == [i \in 1..SuccessFrame |-> FALSE]

\* C26: in src/main.cpp a solver that did not hit its timeout always
\* reports a found sequence of SuccessFrame frames, none of them a click,
\* whatever the state of the live simulation: this is the result of its
\* dfs(0) and the sequence onSolverFinished is given.
C26_ReportsNoClickRun ==
    \A t \in Tids :
        (build = "main" /\ ~thr[t].sawTimeout) =>
            /\ thr[t].pc = "schedule" =>
                  (thr[t].ok /\ thr[t].foundSequence = NoClickRun)
            /\ (thr[t].pc = "done" /\ SearchOver(t)) =>
                  thr[t].sequence = NoClickRun

\* the engine calls that change the state of the simulation
SimMutators ==
    {"startRecording", "pushButton", "update", "stopRecording",
     "restoreStateSnapshot"}

\* the positions of the restore among the engine calls of a callback
RestoreAt(ops) == {i \in 1..Len(ops) : ops[i] = "restoreStateSnapshot"}

\* C27: in src/main.cpp every run of onSolverFinished restores the snapshot
\* taken when its macro was requested, exactly once and as its last change
\* of the simulation, on the no-solution, the export-failed and the
\* exported path alike.
C27_RestoresRequestSnapshot ==
    \A t \in Tids :
        (build = "main" /\ SearchOver(t)) =>
            /\ Cardinality(RestoreAt(thr[t].ops)) = 1
            /\ \A i \in RestoreAt(thr[t].ops) :
                  \A j \in (i + 1)..Len(thr[t].ops) :
                      thr[t].ops[j] \notin SimMutators
            /\ thr[t].restored = thr[t].snap0

\* the step is a run of onSolverFinished
FinishedStep == build = "main" /\ Len(mainQueue') < Len(mainQueue)

\* the step is the user closing the menu, by the X or by the macro button
MenuClosedStep == build = "main" /\ m_modalLayer # 0 /\ m_modalLayer' = 0

\* C28: in src/main.cpp a run of onSolverFinished that exports leaves the
\* pause state as it is, and a run that ends with no solution or with no
\* replay data unpauses the game; so after an export the game stays paused
\* until the user closes the menu or a run of the other kind unpauses it.
C28_PauseAfterFinish ==
    [][/\ FinishedStep =>
             IF Len(exported') > Len(exported)
             THEN paused' = paused
             ELSE paused' = FALSE
       /\ (build = "main" /\ paused /\ ~paused') =>
             \/ MenuClosedStep
             \/ FinishedStep /\ exported' = exported]_vars

\* a search has ended with an export, the menu is open and the game still
\* paused
C28_ExportedAndPaused ==
    \E t \in Tids :
        /\ build = "main"
        /\ SearchOver(t)
        /\ thr[t].ops # <<>>
        /\ thr[t].ops[Len(thr[t].ops)] = "restoreStateSnapshot"
        /\ Len(exported) = 1
        /\ m_modalLayer # 0
        /\ paused

\* C29: in src/main.cpp the locals solverFound and foundSequence of
\* onRequestMacro are never read or written, by the solver thread or by
\* the callback, after onRequestMacro has returned.
C29_NoAccessAfterReturn ==
    \A t \in Tids : build = "main" => thr[t].late = {}

\* C30: in src/main.cpp the status label pointer is always null or the
\* label of the modal that is attached to the PlayLayer, and every text
\* onSolverFinished has written to a label went to the label of the modal
\* attached at that time, never to the label of a modal closed with X.
C30_LabelOfAttachedModal ==
    build = "main" =>
        /\ m_modalStatusLabel \in {0, m_modalLayer}
        /\ \A t \in Tids : \A i \in 1..Len(thr[t].msgs) :
              thr[t].msgs[i].ch = "label" =>
                  thr[t].msgs[i].label = thr[t].msgs[i].modal

\* the second half of C30 alone: no text was written to the label of a
\* modal that was not attached
NoWriteToClosedModal ==
    \A t \in Tids : \A i \in 1..Len(thr[t].msgs) :
        (build = "main" /\ thr[t].msgs[i].ch = "label") =>
            thr[t].msgs[i].label = thr[t].msgs[i].modal

\* C31: in src/main.cpp the live game is paused whenever the modal layer is
\* present, in every state reached by presses of the macro button, clicks
\* on X and completions of the solver.
C31_ModalImpliesPaused ==
    (build = "main" /\ m_modalLayer # 0) => paused

\* C32: in src/main.cpp the replay and the restore of onSolverFinished
\* (pushButton, update, restoreStateSnapshot) change the simulation only
\* while the game is paused: after the user closed the modal and the game
\* was resumed, onSolverFinished neither steps nor rewinds the live game.
C32_FinishedOnlyWhilePaused ==
    [][(FinishedStep /\ ~paused) =>
          /\ sim' = sim
          /\ LET t == Head(mainQueue) IN
             \A i \in 1..Len(thr'[t].ops) :
                 thr'[t].ops[i] \notin
                     {"pushButton", "update", "restoreStateSnapshot"}]_vars

----------------------------------------------------------------------------
(* Claims about the Export button of the randomized search                 *)

\* slot t holds the search that ended last
EndedLast(t) ==
    /\ build = "random"
    /\ thr[t].pc = "done"
    /\ \A u \in Tids : u > t => thr[u].pc # "done"

\* the step is a press of the Export button
ExportPressed == build = "random" /\ exportLog' # exportLog

\* C33: in the randomized search, once a search has ended with a found run
\* a press of Export writes a macro file, whatever the run found, also one
\* without any click.
C33_FoundRunExports ==
    [][\A t \in Tids :
          (EndedLast(t) /\ thr[t].found /\ ExportPressed) =>
              Len(exported') = Len(exported) + 1]_vars

\* C34: in the randomized search Export writes the result of the search
\* that ended last: after a search that ended with "No run found"
\* lastReplayData is empty and a press of Export writes no file, also when
\* an earlier search had found a run.
C34_ExportOfLastSearch ==
    [][\A t \in Tids :
          (EndedLast(t) /\ ~thr[t].found) =>
              /\ g_modalState.lastReplayData = <<>>
              /\ ExportPressed => exported' = exported]_vars

----------------------------------------------------------------------------
(* Claims about the running flag of the randomized search                  *)

\* the step opens the modal
ModalOpened == build = "random" /\ ~m_macroModalOpen /\ m_macroModalOpen'

\* C35: in the randomized search g_modalState.running is true exactly
\* while a solverRun thread is in flight: it is set when the thread is
\* started, every search that was started ends and resets it, and the
\* opening of the modal that follows starts a new search.
C35_RunningWhileInFlight ==
    /\ [](build = "random" =>
             (g_modalState.running <=> \E t \in Tids : InFlight(t)))
    /\ \A t \in Tids :
          (build = "random" /\ thr[t].pc = "start") ~>
              (thr[t].pc = "done" /\ ~g_modalState.running)
    /\ [][(ModalOpened /\ ~g_modalState.running) =>
             /\ g_modalState'.running
             /\ \E t \in Tids : thr[t].pc = "idle" /\ thr'[t].pc = "start"]_vars

\* a search has ended and the next opening of the modal has started another
C35_SecondSearchStarted ==
    \E t, u \in Tids :
        /\ build = "random"
        /\ thr[t].pc = "done"
        /\ thr[u].pc = "start"
        /\ g_modalState.running

====
